---- MODULE Spec2Model ----
(***************************************************************************)
(* Model of the deployment job state machine (cd/manager/jobs/deploy.go)   *)
(* and of the ECS rollout driver (the aws package, Ecs.UpdateEnv /         *)
(* Ecs.CheckEnv and their helpers).                                        *)
(*                                                                         *)
(* Spec     : one deployment job; the dispatcher constructs deployJob      *)
(*            instances (DeployJob), calls AdvanceJob on them, the clock   *)
(*            advances and the platform brings deployments up.             *)
(* EnvSpec  : the ECS driver walking a manager.Layout (CheckEnv).          *)
(* UpdSpec  : the ECS driver updating a manager.Layout (UpdateEnv).        *)
(***************************************************************************)
EXTENDS Integers, Sequences, FiniteSets, TLC

\* ------------------------------------------------------------------------
\* Bounds of the model
\* ------------------------------------------------------------------------
\* the clock runs from 0 to MaxTime
MaxTime == 2
\* highest definition revision the platform registers for one unit
MaxRev == 3
\* number of AdvanceJob calls made on one job
MaxCalls == 2

\* ------------------------------------------------------------------------
\* Program constants
\* ------------------------------------------------------------------------
\* manager.DefaultFailureTime, in clock ticks
DefaultFailureTime == 1

JobStage_Queued == "queued"
JobStage_Started == "started"
JobStage_Completed == "completed"
JobStage_Failed == "failed"

DeployType_Service == "service"
DeployType_Task == "task"

\* absent map entries and nil values
Absent == "absent"
NoError == "nil"
\* an identifier that was never written (the empty string of the source)
NoId == 0

\* error texts
Error_Timeout == "timeout"
Error_Update == "update failed"
Error_Check == "check failed"
Error_UpdateType == "updateCluster: invalid deploy type"
Error_CheckType == "checkCluster: invalid deploy type"
Error_Unexpected == "deployJob: unexpected state"
Error_Db == "db error"
Error_MissingComponent == "deployJob: missing component (ceramic, ipfs, cas)"
Error_MissingSha == "deployJob: missing sha"
Error_Component == "deployJob: unexpected component"
Error_Registry == "registry uri error"

\* ------------------------------------------------------------------------
\* The layout of the "cas" component, as kept under LayoutParam, cut to one
\* service and one task in one cluster
\* ------------------------------------------------------------------------
DeployComponent_Cas == "cas"
Components == {DeployComponent_Cas}
Sha == "abc123"

LayoutUnits == {"api", "anchor"}

\* a Params map without a LayoutParam entry holds the layout of no unit
NoLayout == [u \in {} |-> NoId]

HasLayout(p) == DOMAIN p.layout /= {}

\* the nil *deployJob
NoJob == [stage |-> Absent, ts |-> 0, component |-> Absent, sha |-> Absent]

NoParams == [component |-> Absent, sha |-> Absent, error |-> Absent, layout |-> NoLayout]

UnitCluster(u) == "ceramic-dev-cas"

UnitType(u) == IF u = "anchor" THEN DeployType_Task ELSE DeployType_Service

ServiceUnits == {u \in LayoutUnits : UnitType(u) = DeployType_Service}

\* d.PopulateLayout(c): the layout of a known component, no identifier yet
PopulateLayout(c) ==
    IF c \in Components
    THEN [err |-> NoError, layout |-> [u \in LayoutUnits |-> NoId]]
    ELSE [err |-> Error_Component, layout |-> NoLayout]

\* Go ranges over the nested maps in an unspecified order: every order that
\* keeps the units of one cluster, and of one deploy type in it, together
Perms(S) == {f \in [1..Cardinality(S) -> S] : \A i, j \in DOMAIN f : f[i] = f[j] => i = j}

Together(o, key) ==
    \A i, j, k \in DOMAIN o : (i < j /\ j < k /\ key[o[i]] = key[o[k]]) => key[o[j]] = key[o[i]]

UnitGroup(u) == <<UnitCluster(u), UnitType(u)>>

RangeOrders ==
    {o \in Perms(LayoutUnits) :
        /\ Together(o, [u \in LayoutUnits |-> UnitCluster(u)])
        /\ Together(o, [u \in LayoutUnits |-> UnitGroup(u)])}


\* ------------------------------------------------------------------------
\* State
\* ------------------------------------------------------------------------
VARIABLES
    jobState,   \* stage and timestamp of the manager.JobState the dispatcher holds
    params,     \* the Params map that jobState, the job and the returned state share
    d,          \* the deployJob instance (its copy of stage and timestamp), or NoJob
    db,         \* manager.Database: the stored job state and the two hash records
    notifs,     \* manager.Notifs: the stages notified so far, in order
    ecs,        \* manager.Deployment: registered revision and running revision per unit
    now,        \* the clock
    calls,      \* number of AdvanceJob calls made so far
    returned,   \* the stages the latest AdvanceJob call on the instance d went from and to
    updates,    \* the results of the update phases run for the job, in order
    last,       \* what the AdvanceJob call that led to this state did, or NoCall
    cons,       \* what the most recent DeployJob call did
    envLayout,  \* EnvSpec, UpdSpec: the manager.Layout walked by the driver
    envEcs,     \* EnvSpec: the deployments of each service, the status of each task;
                \* UpdSpec: the definitions and the running tasks of each family
    envLast     \* what the driver call that led to this state did, or NoEnvCall (EnvSpec),
                \* NoUpdCall (UpdSpec)

jobVars == <<jobState, params, d, db, notifs, ecs, now, calls, returned, updates, last, cons>>
envVars == <<envLayout, envEcs, envLast>>
vars == <<jobState, params, d, db, notifs, ecs, now, calls, returned, updates, last, cons, envLayout, envEcs, envLast>>

\* a manager.JobState value: stage, timestamp and the contents of its Params map
StateOf(stage, ts, p) == [stage |-> stage, ts |-> ts, params |-> p]

\* ------------------------------------------------------------------------
\* deployJob.updateCluster (deploy.go 92-119)
\* ------------------------------------------------------------------------
\* d.d.UpdateService / d.d.UpdateTask on a unit that does not fail: the
\* platform registers the next revision and returns its identifier; the
\* instances of the old revision of a service are stopped
UpdateUnit(e, u) ==
    [rev |-> [e.rev EXCEPT ![u] = @ + 1],
     running |-> [x \in ServiceUnits |-> IF x = u THEN NoId ELSE e.running[x]]]

RECURSIVE updateClusterFrom(_, _, _, _, _)
updateClusterFrom(i, order, fails, layout, e) ==
    IF i > Len(order)
    THEN [err |-> NoError, layout |-> layout, ecs |-> e]
    ELSE LET u == order[i] IN
         IF UnitType(u) \notin {DeployType_Service, DeployType_Task}
         THEN [err |-> Error_UpdateType, layout |-> layout, ecs |-> e]
         ELSE IF u \in fails
         THEN [err |-> Error_Update, layout |-> layout, ecs |-> e]
         ELSE LET e2 == UpdateUnit(e, u) IN
              updateClusterFrom(i + 1, order, fails, [layout EXCEPT ![u] = e2.rev[u]], e2)

updateCluster(layout, order, fails, e) == updateClusterFrom(1, order, fails, layout, e)

\* ------------------------------------------------------------------------
\* deployJob.checkCluster (deploy.go 121-141)
\* ------------------------------------------------------------------------
\* d.d.CheckService: a deployment of revision id has a running instance
CheckService(e, u, id) == e.running[u] /= NoId /\ e.running[u] = id

RECURSIVE checkClusterFrom(_, _, _, _, _)
checkClusterFrom(i, order, checkErrs, layout, e) ==
    IF i > Len(order)
    THEN [running |-> TRUE, err |-> NoError]
    ELSE LET u == order[i] IN
         IF UnitType(u) = DeployType_Service
         THEN IF u \in checkErrs
              THEN [running |-> FALSE, err |-> Error_Check]
              ELSE IF ~CheckService(e, u, layout[u])
              THEN [running |-> FALSE, err |-> NoError]
              ELSE checkClusterFrom(i + 1, order, checkErrs, layout, e)
         ELSE IF UnitType(u) = DeployType_Task
         THEN checkClusterFrom(i + 1, order, checkErrs, layout, e)
         ELSE [running |-> FALSE, err |-> Error_CheckType]

checkCluster(layout, order, checkErrs, e) == checkClusterFrom(1, order, checkErrs, layout, e)

\* ------------------------------------------------------------------------
\* deployJob.AdvanceJob (deploy.go 46-90)
\* ------------------------------------------------------------------------
\* What the collaborators answer during one call: the order the maps are
\* ranged over, the units whose update or check call fails, and whether the
\* three database calls succeed.  A walk stops at the first failing unit, so
\* one failing unit at most is enumerated
FailSets(S) == {{}} \cup {{u} : u \in S}

Event(op, stage, ts, p) == [op |-> op, state |-> StateOf(stage, ts, p)]

\* line 60: time.Now().Add(-manager.DefaultFailureTime).After(d.state.Ts)
TimedOut(t, ts) == t - DefaultFailureTime > ts

\* mutants of AdvanceQueued: a failed build-hash update fails the job; the
\* job completes without a check
AdvanceQueued_HashFatal(j, p, e, in) ==
    LET up == updateCluster(p.layout, in.order, in.fails, e)
        p1 == [p EXCEPT !.layout = up.layout]
    IN  IF up.err /= NoError \/ ~in.buildOk
        THEN [stage |-> JobStage_Failed,
              params |-> [p1 EXCEPT !.error = IF up.err /= NoError THEN up.err ELSE Error_Db],
              early |-> FALSE, err |-> NoError, events |-> <<>>,
              update |-> IF up.err /= NoError THEN "err" ELSE "ok", check |-> "none",
              ecs |-> up.ecs]
        ELSE [stage |-> JobStage_Started, params |-> p1,
              early |-> FALSE, err |-> NoError,
              events |-> <<Event("buildHash", JobStage_Started, j.ts, p1)>>,
              update |-> "ok", check |-> "none", ecs |-> up.ecs]

AdvanceQueued_Completes(j, p, e, in) ==
    LET up == updateCluster(p.layout, in.order, in.fails, e)
        p1 == [p EXCEPT !.layout = up.layout]
    IN  IF up.err /= NoError
        THEN [stage |-> JobStage_Failed, params |-> [p1 EXCEPT !.error = up.err],
              early |-> FALSE, err |-> NoError, events |-> <<>>,
              update |-> "err", check |-> "none", ecs |-> up.ecs]
        ELSE [stage |-> JobStage_Completed, params |-> p1,
              early |-> FALSE, err |-> NoError,
              events |-> <<Event(IF in.buildOk THEN "buildHash" ELSE "buildHashFailed",
                                 JobStage_Completed, j.ts, p1)>>,
              update |-> "ok", check |-> "none", ecs |-> up.ecs]

\* lines 47-59: the job is queued
AdvanceQueued(j, p, e, in) ==
    LET up == updateCluster(p.layout, in.order, in.fails, e)
        p1 == [p EXCEPT !.layout = up.layout]
    IN  IF up.err /= NoError
        THEN [stage |-> JobStage_Failed, params |-> [p1 EXCEPT !.error = up.err],
              early |-> FALSE, err |-> NoError, events |-> <<>>,
              update |-> "err", check |-> "none", ecs |-> up.ecs]
        ELSE [stage |-> JobStage_Started, params |-> p1,
              early |-> FALSE, err |-> NoError,
              events |-> <<Event(IF in.buildOk THEN "buildHash" ELSE "buildHashFailed",
                                 JobStage_Started, j.ts, p1)>>,
              update |-> "ok", check |-> "none", ecs |-> up.ecs]

\* mutant of AdvanceTimedOut: the job fails without the timeout error being
\* recorded
AdvanceTimedOut_NoError(j, p, e, in) ==
    [stage |-> JobStage_Failed, params |-> p,
     early |-> FALSE, err |-> NoError, events |-> <<>>,
     update |-> "none", check |-> "none", ecs |-> e]

\* lines 60-63: the job ran out of time
AdvanceTimedOut(j, p, e, in) ==
    [stage |-> JobStage_Failed, params |-> [p EXCEPT !.error = Error_Timeout],
     early |-> FALSE, err |-> NoError, events |-> <<>>,
     update |-> "none", check |-> "none", ecs |-> e]

\* mutant of AdvanceStarted: the job that has not converged goes on to the
\* notification and the database like the others
AdvanceStarted_PendingFallsThrough(j, p, e, in) ==
    LET ck == checkCluster(p.layout, in.order, in.checkErrs, e) IN
    IF ck.err /= NoError
    THEN [stage |-> JobStage_Failed, params |-> [p EXCEPT !.error = ck.err],
          early |-> FALSE, err |-> NoError, events |-> <<>>,
          update |-> "none", check |-> "err", ecs |-> e]
    ELSE IF ck.running
    THEN [stage |-> JobStage_Completed, params |-> p,
          early |-> FALSE, err |-> NoError,
          events |-> <<Event(IF in.deployOk THEN "deployHash" ELSE "deployHashFailed",
                             JobStage_Completed, j.ts, p)>>,
          update |-> "none", check |-> "converged", ecs |-> e]
    ELSE [stage |-> j.stage, params |-> p,
          early |-> FALSE, err |-> NoError, events |-> <<>>,
          update |-> "none", check |-> "pending", ecs |-> e]

\* lines 64-80: the job is started
AdvanceStarted(j, p, e, in) ==
    LET ck == checkCluster(p.layout, in.order, in.checkErrs, e) IN
    IF ck.err /= NoError
    THEN [stage |-> JobStage_Failed, params |-> [p EXCEPT !.error = ck.err],
          early |-> FALSE, err |-> NoError, events |-> <<>>,
          update |-> "none", check |-> "err", ecs |-> e]
    ELSE IF ck.running
    THEN [stage |-> JobStage_Completed, params |-> p,
          early |-> FALSE, err |-> NoError,
          events |-> <<Event(IF in.deployOk THEN "deployHash" ELSE "deployHashFailed",
                             JobStage_Completed, j.ts, p)>>,
          update |-> "none", check |-> "converged", ecs |-> e]
    ELSE [stage |-> j.stage, params |-> p,
          early |-> TRUE, err |-> NoError, events |-> <<>>,
          update |-> "none", check |-> "pending", ecs |-> e]

\* lines 81-84: any other stage
AdvanceUnexpected(j, p, e, in) ==
    [stage |-> j.stage, params |-> p,
     early |-> TRUE, err |-> Error_Unexpected, events |-> <<>>,
     update |-> "none", check |-> "none", ecs |-> e]

\* mutant of ShouldNotify: failed jobs are not notified
ShouldNotify_NotFailed(stage) == stage \in {JobStage_Started, JobStage_Completed}

\* line 86: only started, completed and failed jobs are notified
ShouldNotify(stage) == stage \in {JobStage_Started, JobStage_Failed, JobStage_Completed}

\* mutant of AdvanceFinish: the state is returned without the database call
AdvanceFinish_NoSave(j, b, in) ==
    IF b.early
    THEN b
    ELSE [b EXCEPT
            !.events = @ \o (IF ShouldNotify(b.stage)
                             THEN <<Event("notify", b.stage, j.ts, b.params)>>
                             ELSE <<>>),
            !.err = NoError]

\* mutant of AdvanceFinish: the state is handed to the database first and
\* the notification is sent only when it was stored
AdvanceFinish_NotifyAfterSave(j, b, in) ==
    IF b.early
    THEN b
    ELSE [b EXCEPT
            !.events = @ \o <<Event(IF in.saveOk THEN "save" ELSE "saveFailed",
                                    b.stage, j.ts, b.params)>>
                         \o (IF ShouldNotify(b.stage) /\ in.saveOk
                             THEN <<Event("notify", b.stage, j.ts, b.params)>>
                             ELSE <<>>),
            !.err = IF in.saveOk THEN NoError ELSE Error_Db]

\* lines 85-89: notify, then hand the state to the database and return
AdvanceFinish(j, b, in) ==
    IF b.early
    THEN b
    ELSE [b EXCEPT
            !.events = @ \o (IF ShouldNotify(b.stage)
                             THEN <<Event("notify", b.stage, j.ts, b.params)>>
                             ELSE <<>>)
                         \o <<Event(IF in.saveOk THEN "save" ELSE "saveFailed",
                                    b.stage, j.ts, b.params)>>,
            !.err = IF in.saveOk THEN NoError ELSE Error_Db]

\* mutant of AdvanceJobCall: the stage of a started job is looked at before
\* the clock
AdvanceJobCall_StageFirst(j, p, t, e, in) ==
    AdvanceFinish(j,
        IF j.stage = JobStage_Queued THEN AdvanceQueued(j, p, e, in)
        ELSE IF j.stage = JobStage_Started THEN AdvanceStarted(j, p, e, in)
        ELSE IF TimedOut(t, j.ts) THEN AdvanceTimedOut(j, p, e, in)
        ELSE AdvanceUnexpected(j, p, e, in),
        in)

\* mutant of AdvanceJobCall: the clock is looked at before the stage of a
\* queued job
AdvanceJobCall_TimeoutFirst(j, p, t, e, in) ==
    AdvanceFinish(j,
        IF TimedOut(t, j.ts) THEN AdvanceTimedOut(j, p, e, in)
        ELSE IF j.stage = JobStage_Queued THEN AdvanceQueued(j, p, e, in)
        ELSE IF j.stage = JobStage_Started THEN AdvanceStarted(j, p, e, in)
        ELSE AdvanceUnexpected(j, p, e, in),
        in)

\* the whole method, on the receiver's copy j of the job and the map p
AdvanceJobCall(j, p, t, e, in) ==
    AdvanceFinish(j,
        IF j.stage = JobStage_Queued THEN AdvanceQueued(j, p, e, in)
        ELSE IF TimedOut(t, j.ts) THEN AdvanceTimedOut(j, p, e, in)
        ELSE IF j.stage = JobStage_Started THEN AdvanceStarted(j, p, e, in)
        ELSE AdvanceUnexpected(j, p, e, in),
        in)

\* the answers of the calls that the method makes on a job j at time t; the
\* answers of calls it does not make are not enumerated
AdvanceInputs(j, t) ==
    LET updates_ == j.stage = JobStage_Queued
        checks_ == j.stage = JobStage_Started /\ ~TimedOut(t, j.ts)
        anyOrder == CHOOSE o \in RangeOrders : TRUE
    IN  {in \in [order : IF updates_ \/ checks_ THEN RangeOrders ELSE {anyOrder},
                 fails : IF updates_ THEN FailSets(LayoutUnits) ELSE {{}},
                 checkErrs : IF checks_ THEN FailSets(ServiceUnits) ELSE {{}},
                 buildOk : IF updates_ THEN BOOLEAN ELSE {TRUE},
                 deployOk : IF checks_ THEN BOOLEAN ELSE {TRUE},
                 saveOk : IF j.stage \in {JobStage_Queued, JobStage_Started} \/ TimedOut(t, j.ts)
                          THEN BOOLEAN ELSE {TRUE}] :
            \* the build hash is updated only after an update without failure
            /\ (in.fails /= {}) => in.buildOk
            \* a walk that meets no failure visits every unit in any order
            /\ (updates_ /\ in.fails = {}) => in.order = anyOrder}

\* line 46: the receiver is a value, so the stage written by the call is
\* written to a copy; the instance keeps the stage it was constructed with
ReceiverAfter(j, stage) == j

\* ------------------------------------------------------------------------
\* DeployJob (deploy.go 25-44)
\* ------------------------------------------------------------------------
\* mutant of DeployJobCall: the layout is installed before the sha is looked
\* for
DeployJobCall_LayoutFirst(js, p, registryOk) ==
    IF p.component = Absent
    THEN [job |-> NoJob, params |-> p, err |-> Error_MissingComponent]
    ELSE LET pl == PopulateLayout(p.component) IN
         IF pl.err /= NoError
         THEN [job |-> NoJob, params |-> p, err |-> pl.err]
         ELSE IF p.sha = Absent
         THEN [job |-> NoJob, params |-> [p EXCEPT !.layout = pl.layout], err |-> Error_MissingSha]
         ELSE IF ~registryOk
         THEN [job |-> NoJob, params |-> p, err |-> Error_Registry]
         ELSE [job |-> [stage |-> js.stage, ts |-> js.ts,
                        component |-> p.component, sha |-> p.sha],
               params |-> IF ~HasLayout(p) THEN [p EXCEPT !.layout = pl.layout] ELSE p,
               err |-> NoError]

\* mutant of DeployJobCall: the freshly populated layout is installed
\* whether or not the state already holds one
DeployJobCall_AlwaysPopulates(js, p, registryOk) ==
    IF p.component = Absent
    THEN [job |-> NoJob, params |-> p, err |-> Error_MissingComponent]
    ELSE IF p.sha = Absent
    THEN [job |-> NoJob, params |-> p, err |-> Error_MissingSha]
    ELSE LET pl == PopulateLayout(p.component) IN
         IF pl.err /= NoError
         THEN [job |-> NoJob, params |-> p, err |-> pl.err]
         ELSE IF ~registryOk
         THEN [job |-> NoJob, params |-> p, err |-> Error_Registry]
         ELSE [job |-> [stage |-> js.stage, ts |-> js.ts,
                        component |-> p.component, sha |-> p.sha],
               params |-> [p EXCEPT !.layout = pl.layout],
               err |-> NoError]

DeployJobCall(js, p, registryOk) ==
    IF p.component = Absent
    THEN [job |-> NoJob, params |-> p, err |-> Error_MissingComponent]
    ELSE IF p.sha = Absent
    THEN [job |-> NoJob, params |-> p, err |-> Error_MissingSha]
    ELSE LET pl == PopulateLayout(p.component) IN
         IF pl.err /= NoError
         THEN [job |-> NoJob, params |-> p, err |-> pl.err]
         ELSE IF ~registryOk
         THEN [job |-> NoJob, params |-> p, err |-> Error_Registry]
         ELSE [job |-> [stage |-> js.stage, ts |-> js.ts,
                        component |-> p.component, sha |-> p.sha],
               params |-> IF ~HasLayout(p) THEN [p EXCEPT !.layout = pl.layout] ELSE p,
               err |-> NoError]

\* ------------------------------------------------------------------------
\* The collaborators: database, notifications, platform
\* ------------------------------------------------------------------------
\* db.UpdateJob, db.UpdateBuildHash and db.UpdateDeployHash calls that succeed
\* are stored; a failed call stores nothing
RECURSIVE StoreEvents(_, _)
StoreEvents(store, events) ==
    IF events = <<>>
    THEN store
    ELSE LET ev == Head(events) IN
         StoreEvents(
            CASE ev.op = "save" -> [store EXCEPT !.job = ev.state]
              [] ev.op = "buildHash" -> [store EXCEPT !.buildHash = ev.state.params.sha]
              [] ev.op = "deployHash" -> [store EXCEPT !.deployHash = ev.state.params.sha]
              [] OTHER -> store,
            Tail(events))

IsNotify(ev) == ev.op = "notify"

IsSave(ev) == ev.op \in {"save", "saveFailed"}

IsHash(ev) == ev.op \in {"buildHash", "buildHashFailed", "deployHash", "deployHashFailed"}

RECURSIVE StagesOf(_)
StagesOf(events) ==
    IF events = <<>> THEN <<>> ELSE <<Head(events).state.stage>> \o StagesOf(Tail(events))

\* every service of the layout runs the revision recorded for it
Converged(layout, e) == \A u \in ServiceUnits : CheckService(e, u, layout[u])

\* ------------------------------------------------------------------------
\* Spec: one deployment job
\* ------------------------------------------------------------------------
NoState == StateOf(Absent, 0, NoParams)

NoReturn == [from |-> Absent, to |-> Absent]

NoCall ==
    [in |-> NoState, out |-> NoState, before |-> NoReturn,
     elapsed |-> 0, converged |-> FALSE, err |-> NoError, events |-> <<>>,
     update |-> "none", check |-> "none"]

NoCons == [err |-> NoError]

EnvIdle == <<>>

Init ==
    /\ jobState = [stage |-> JobStage_Queued, ts |-> 0]
    /\ params \in [component : Components \cup {"bogus", Absent}, sha : {Sha, Absent},
                   error : {Absent}, layout : {NoLayout}]
    /\ d = NoJob
    /\ db = [job |-> StateOf(JobStage_Queued, 0, params), buildHash |-> Absent, deployHash |-> Absent]
    /\ notifs = <<>>
    /\ ecs = [rev |-> [u \in LayoutUnits |-> 1], running |-> [u \in ServiceUnits |-> 1]]
    /\ now = 0
    /\ calls = 0
    /\ returned = NoReturn
    /\ updates = <<>>
    /\ last = NoCall
    /\ cons = NoCons
    /\ envLayout = EnvIdle
    /\ envEcs = EnvIdle
    /\ envLast = EnvIdle

\* the dispatcher constructs a job from the state it holds, or from the
\* state it reads back from the database
DeployJob ==
    /\ calls < MaxCalls
    /\ \E src \in {"held", "stored"}, registryOk \in BOOLEAN :
        LET js == IF src = "held" THEN StateOf(jobState.stage, jobState.ts, params) ELSE db.job
            c == DeployJobCall(js, js.params, registryOk)
        IN  /\ d' = c.job
            /\ jobState' = [stage |-> js.stage, ts |-> js.ts]
            /\ params' = c.params
            /\ cons' = [err |-> c.err]
            /\ returned' = NoReturn
            /\ last' = NoCall
            /\ UNCHANGED <<db, notifs, ecs, now, calls, updates, envVars>>

\* the dispatcher calls AdvanceJob on the job and keeps the returned state
AdvanceJob ==
    /\ d /= NoJob
    /\ calls < MaxCalls
    /\ d.stage = JobStage_Queued => \A u \in LayoutUnits : ecs.rev[u] < MaxRev
    /\ \E in \in AdvanceInputs(d, now) :
        LET r == AdvanceJobCall(d, params, now, ecs, in) IN
            /\ d' = ReceiverAfter(d, r.stage)
            /\ jobState' = [stage |-> r.stage, ts |-> d.ts]
            /\ params' = r.params
            /\ db' = StoreEvents(db, r.events)
            /\ notifs' = notifs \o StagesOf(SelectSeq(r.events, IsNotify))
            /\ ecs' = r.ecs
            /\ calls' = calls + 1
            /\ returned' = [from |-> d.stage, to |-> r.stage]
            /\ updates' = IF r.update = "none" THEN updates ELSE Append(updates, r.update)
            /\ last' = [in |-> StateOf(d.stage, d.ts, params),
                        out |-> StateOf(r.stage, d.ts, r.params),
                        before |-> returned,
                        elapsed |-> now - d.ts,
                        converged |-> Converged(params.layout, ecs),
                        err |-> r.err, events |-> r.events,
                        update |-> r.update, check |-> r.check]
            /\ UNCHANGED <<now, cons, envVars>>

\* time passes
Tick ==
    /\ now < MaxTime
    /\ calls < MaxCalls
    /\ now' = now + 1
    /\ last' = NoCall
    /\ UNCHANGED <<jobState, params, d, db, notifs, ecs, calls, returned, updates, cons, envVars>>

\* the platform brings up an instance of the latest revision of a service
EcsProgress ==
    \E u \in ServiceUnits :
        /\ calls < MaxCalls
        /\ ecs.running[u] /= ecs.rev[u]
        /\ ecs' = [ecs EXCEPT !.running[u] = ecs.rev[u]]
        /\ last' = NoCall
        /\ UNCHANGED <<jobState, params, d, db, notifs, now, calls, returned, updates, cons, envVars>>

Next == DeployJob \/ AdvanceJob \/ Tick \/ EcsProgress

Spec == Init /\ [][Next]_vars

\* ------------------------------------------------------------------------
\* The ECS driver: manager.Layout and the check phase (Ecs.CheckEnv)
\* ------------------------------------------------------------------------
\* a manager.Task, a manager.TaskSet (nil when absent) and a manager.Cluster
Task(repo, temp, id) == [repo |-> repo, temp |-> temp, id |-> id]

NilTaskSet == [nil |-> TRUE, repo |-> "", tasks |-> [n \in {} |-> Task("", FALSE, NoId)]]

TaskSet(tasks) == [nil |-> FALSE, repo |-> "", tasks |-> tasks]

Cluster(serviceTasks, tasks) == [repo |-> "", serviceTasks |-> serviceTasks, tasks |-> tasks]

Layout(clusters) == [repo |-> "ceramic-dev", clusters |-> clusters]

Services(names) == TaskSet([n \in names |-> Task("", FALSE, NoId)])

\* plain tasks; the names in temps are transient
Tasks(names, temps) == TaskSet([n \in names |-> Task("", n \in temps, NoId)])

NoClusters == [c \in {} |-> Cluster(NilTaskSet, NilTaskSet)]

\* The layouts of PopulateEnvLayout for "cas" (two services and a transient
\* task in one cluster) and for "ceramic" cut to two clusters of one service, and layouts
\* with permanent tasks, empty task sets, no task sets and no clusters
EnvShapes ==
    { Layout([c \in {"cas"} |-> Cluster(Services({"api", "scheduler"}), Tasks({"anchor"}, {"anchor"}))]),
      Layout([c \in {"private", "public"} |-> Cluster(Services({"node"}), NilTaskSet)]),
      Layout([c \in {"cas"} |-> Cluster(Services({"api"}), Tasks({"anchor", "worker"}, {"anchor"}))]),
      Layout([c \in {"cas"} |-> Cluster(NilTaskSet, Tasks({"anchor", "worker"}, {}))]),
      Layout([c \in {"cas"} |-> Cluster(Services({}), Tasks({"anchor"}, {"anchor"}))]),
      Layout([c \in {"cas"} |-> Cluster(NilTaskSet, NilTaskSet)]),
      Layout(NoClusters) }

\* the deployment units of a layout, as <<cluster, deploy type, name>>
UnitsOf(layout) ==
    UNION {   {<<c, DeployType_Service, n>> : n \in DOMAIN layout.clusters[c].serviceTasks.tasks}
         \cup {<<c, DeployType_Task, n>> : n \in DOMAIN layout.clusters[c].tasks.tasks}
         : c \in DOMAIN layout.clusters }

TaskSetOf(layout, c, deployType) ==
    IF deployType = DeployType_Service
    THEN layout.clusters[c].serviceTasks
    ELSE layout.clusters[c].tasks

TaskOf(layout, u) == TaskSetOf(layout, u[1], u[2]).tasks[u[3]]

\* the layout with the identifiers ids written into its tasks
WithIds(layout, ids) ==
    LET Stamp(c, deployType, ts) ==
            [ts EXCEPT !.tasks = [n \in DOMAIN ts.tasks |->
                                    [ts.tasks[n] EXCEPT !.id = ids[<<c, deployType, n>>]]]]
    IN  [layout EXCEPT !.clusters =
            [c \in DOMAIN layout.clusters |->
                [layout.clusters[c] EXCEPT
                    !.serviceTasks = Stamp(c, DeployType_Service, @),
                    !.tasks = Stamp(c, DeployType_Task, @)]]]

\* ------------------------------------------------------------------------
\* Ecs.checkEcsService (396-423) and Ecs.CheckTask (72-103)
\* ------------------------------------------------------------------------
\* a types.Deployment of a service: its task definition and running count
Deployment(taskDefinition, runningCount) ==
    [taskDefinition |-> taskDefinition, runningCount |-> runningCount]

\* lines 417-422: look for a deployment of the task definition with at
\* least one running task
RECURSIVE AnyDeploymentRunning(_, _)
AnyDeploymentRunning(deployments, taskDefArn) ==
    IF deployments = <<>>
    THEN FALSE
    ELSE IF Head(deployments).taskDefinition = taskDefArn /\ Head(deployments).runningCount > 0
    THEN TRUE
    ELSE AnyDeploymentRunning(Tail(deployments), taskDefArn)

\* describeFails: the DescribeServices call fails or reports failures
checkEcsService(deployments, taskDefArn, describeFails) ==
    IF describeFails
    THEN [deployed |-> FALSE, err |-> Error_Check]
    ELSE [deployed |-> AnyDeploymentRunning(deployments, taskDefArn), err |-> NoError]

\* lines 93-102: true when tasks were found and all are in the status asked
RECURSIVE AllInStatus(_, _)
AllInStatus(statuses, checkStatus) ==
    IF statuses = <<>>
    THEN TRUE
    ELSE IF Head(statuses) /= checkStatus
    THEN FALSE
    ELSE AllInStatus(Tail(statuses), checkStatus)

\* statuses: the LastStatus of the tasks that DescribeTasks returns
CheckTask(running, statuses, describeFails) ==
    IF describeFails
    THEN [deployed |-> FALSE, err |-> Error_Check]
    ELSE LET checkStatus == IF running THEN "RUNNING" ELSE "STOPPED" IN
         IF Len(statuses) > 0
         THEN [deployed |-> AllInStatus(statuses, checkStatus), err |-> NoError]
         ELSE [deployed |-> FALSE, err |-> NoError]

\* ------------------------------------------------------------------------
\* Ecs.checkEnvTaskSet (496-523), Ecs.checkEnvCluster (484-494),
\* Ecs.CheckEnv (217-226)
\* ------------------------------------------------------------------------
\* e: the platform; fails: the units whose describe call fails; order: the
\* order in which the range statement visits the names of the task set.
\* The result carries the units that a describe call was issued for.
RECURSIVE checkEnvTaskSetFrom(_, _, _, _, _, _, _)
checkEnvTaskSetFrom(i, taskSet, deployType, cluster, order, e, fails) ==
    IF i > Len(order)
    THEN [deployed |-> TRUE, err |-> NoError, described |-> <<>>]
    ELSE LET name == order[i]
             task == taskSet.tasks[name]
             u == <<cluster, deployType, name>>
         IN  IF deployType = DeployType_Service
             THEN LET r == checkEcsService(e.deployments[u], task.id, u \in fails) IN
                  IF r.err /= NoError
                  THEN [deployed |-> FALSE, err |-> r.err, described |-> <<u>>]
                  ELSE IF ~r.deployed
                  THEN [deployed |-> FALSE, err |-> NoError, described |-> <<u>>]
                  ELSE [deployed |-> TRUE, err |-> NoError, described |-> <<u>>]
             ELSE IF deployType = DeployType_Task
             THEN IF ~task.temp
                  THEN LET r == CheckTask(TRUE, e.statuses[u], u \in fails) IN
                       IF r.err /= NoError
                       THEN [deployed |-> FALSE, err |-> r.err, described |-> <<u>>]
                       ELSE IF ~r.deployed
                       THEN [deployed |-> FALSE, err |-> NoError, described |-> <<u>>]
                       ELSE [deployed |-> TRUE, err |-> NoError, described |-> <<u>>]
                  ELSE checkEnvTaskSetFrom(i + 1, taskSet, deployType, cluster, order, e, fails)
             ELSE [deployed |-> FALSE, err |-> Error_UpdateType, described |-> <<>>]

\* mutant of checkEnvTaskSet: a task set that is absent is not deployed
checkEnvTaskSet_NilNotDeployed(taskSet, deployType, cluster, order, e, fails) ==
    IF taskSet.nil
    THEN [deployed |-> FALSE, err |-> NoError, described |-> <<>>]
    ELSE checkEnvTaskSetFrom(1, taskSet, deployType, cluster, order, e, fails)

checkEnvTaskSet(taskSet, deployType, cluster, order, e, fails) ==
    IF taskSet.nil
    THEN [deployed |-> TRUE, err |-> NoError, described |-> <<>>]
    ELSE checkEnvTaskSetFrom(1, taskSet, deployType, cluster, order, e, fails)

\* orders.names[<<cluster, deploy type>>] is the order of the task set
checkEnvCluster(cluster, clusterName, orders, e, fails) ==
    LET sv == checkEnvTaskSet(cluster.serviceTasks, DeployType_Service, clusterName,
                              orders.names[<<clusterName, DeployType_Service>>], e, fails)
    IN  IF sv.err /= NoError
        THEN [deployed |-> FALSE, err |-> sv.err, described |-> sv.described]
        ELSE IF ~sv.deployed
        THEN [deployed |-> FALSE, err |-> NoError, described |-> sv.described]
        ELSE LET tk == checkEnvTaskSet(cluster.tasks, DeployType_Task, clusterName,
                                       orders.names[<<clusterName, DeployType_Task>>], e, fails)
             IN  IF tk.err /= NoError
                 THEN [deployed |-> FALSE, err |-> tk.err,
                       described |-> sv.described \o tk.described]
                 ELSE [deployed |-> tk.deployed, err |-> NoError,
                       described |-> sv.described \o tk.described]

\* orders.clusters is the order in which the clusters are visited
RECURSIVE CheckEnvFrom(_, _, _, _, _)
CheckEnvFrom(i, layout, orders, e, fails) ==
    IF i > Len(orders.clusters)
    THEN [deployed |-> TRUE, err |-> NoError, described |-> <<>>]
    ELSE LET clusterName == orders.clusters[i]
             r == checkEnvCluster(layout.clusters[clusterName], clusterName, orders, e, fails)
         IN  IF r.err /= NoError
             THEN [deployed |-> FALSE, err |-> r.err, described |-> r.described]
             ELSE IF ~r.deployed
             THEN [deployed |-> FALSE, err |-> NoError, described |-> r.described]
             ELSE LET rest == CheckEnvFrom(i + 1, layout, orders, e, fails) IN
                  [rest EXCEPT !.described = r.described \o @]

CheckEnv(layout, orders, e, fails) == CheckEnvFrom(1, layout, orders, e, fails)

\* The orders in which the maps of a layout can be ranged over: an order of
\* the clusters, and an order of the names of every task set
TaskSetKeys(layout) ==
    {<<c, t>> : c \in DOMAIN layout.clusters, t \in {DeployType_Service, DeployType_Task}}

NameOrders(layout, k) == Perms(DOMAIN TaskSetOf(layout, k[1], k[2]).tasks)

EnvOrders(layout) ==
    [clusters : Perms(DOMAIN layout.clusters),
     names : {f \in [TaskSetKeys(layout) ->
                        UNION {NameOrders(layout, k) : k \in TaskSetKeys(layout)}] :
                \A k \in TaskSetKeys(layout) : f[k] \in NameOrders(layout, k)}]

\* the units that a describe call can be issued for
DescribedUnits(layout) ==
    {u \in UnitsOf(layout) : u[2] = DeployType_Service \/ ~TaskOf(layout, u).temp}

\* ------------------------------------------------------------------------
\* EnvSpec: the driver on one layout, and the platform
\* ------------------------------------------------------------------------
\* highest task definition revision of a service
MaxEnvRev == 2
\* line 510: CheckTask is given two task identifiers, so DescribeTasks
\* returns two tasks at most
MaxDescribed == 2

ServicesOf(layout) == {u \in UnitsOf(layout) : u[2] = DeployType_Service}

PlainTasksOf(layout) == {u \in UnitsOf(layout) : u[2] = DeployType_Task}

\* a unit has converged: a service has a deployment of the revision stored
\* for it with a running instance, a permanent task is found running
UnitConverged(layout, e, u) ==
    IF u[2] = DeployType_Service
    THEN \E i \in DOMAIN e.deployments[u] :
            /\ e.deployments[u][i].taskDefinition = TaskOf(layout, u).id
            /\ e.deployments[u][i].runningCount >= 1
    ELSE TaskOf(layout, u).temp
            \/ (/\ e.statuses[u] /= <<>>
                /\ \A i \in DOMAIN e.statuses[u] : e.statuses[u][i] = "RUNNING")

NoEnvCall ==
    [op |-> "none", deployed |-> FALSE, err |-> NoError, described |-> <<>>, converged |-> {}]

JobIdle ==
    /\ jobState = [stage |-> Absent, ts |-> 0]
    /\ params = NoParams
    /\ d = NoJob
    /\ db = [job |-> NoState, buildHash |-> Absent, deployHash |-> Absent]
    /\ notifs = <<>>
    /\ ecs = [rev |-> [u \in LayoutUnits |-> 1], running |-> [u \in ServiceUnits |-> 1]]
    /\ now = 0
    /\ calls = 0
    /\ returned = NoReturn
    /\ updates = <<>>
    /\ last = NoCall
    /\ cons = NoCons

EnvInit ==
    /\ JobIdle
    /\ \E shape \in EnvShapes :
        /\ \E ids \in [UnitsOf(shape) -> 0..MaxEnvRev] :
                /\ \A u \in PlainTasksOf(shape) : ids[u] = NoId
                /\ envLayout = WithIds(shape, ids)
        /\ envEcs = [deployments |-> [u \in ServicesOf(shape) |-> <<Deployment(1, 1)>>],
                     statuses |-> [u \in PlainTasksOf(shape) |-> <<>>]]
    /\ envLast = NoEnvCall

\* the check phase of the driver on the layout
CheckEnvCall ==
    \E orders \in EnvOrders(envLayout), fails \in FailSets(DescribedUnits(envLayout)) :
        LET r == CheckEnv(envLayout, orders, envEcs, fails) IN
            /\ envLast' = [op |-> "check", deployed |-> r.deployed, err |-> r.err,
                           described |-> r.described,
                           converged |-> {u \in UnitsOf(envLayout) :
                                            UnitConverged(envLayout, envEcs, u)}]
            /\ UNCHANGED <<envLayout, envEcs, jobVars>>

\* the platform starts the deployment of the next revision of a service
EcsRollout ==
    \E u \in ServicesOf(envLayout) :
        /\ Len(envEcs.deployments[u]) = 1
        /\ Head(envEcs.deployments[u]).taskDefinition < MaxEnvRev
        /\ envEcs' = [envEcs EXCEPT !.deployments[u] =
                        <<Deployment(Head(@).taskDefinition + 1, 0)>> \o @]
        /\ envLast' = NoEnvCall
        /\ UNCHANGED <<envLayout, jobVars>>

\* an instance of the newest deployment of a service comes up
EcsRun ==
    \E u \in ServicesOf(envLayout) :
        /\ Head(envEcs.deployments[u]).runningCount = 0
        /\ envEcs' = [envEcs EXCEPT !.deployments[u] =
                        <<Deployment(Head(@).taskDefinition, 1)>> \o Tail(@)]
        /\ envLast' = NoEnvCall
        /\ UNCHANGED <<envLayout, jobVars>>

\* the platform retires the old deployment of a service
EcsDrain ==
    \E u \in ServicesOf(envLayout) :
        /\ Len(envEcs.deployments[u]) = 2
        /\ Head(envEcs.deployments[u]).runningCount > 0
        /\ envEcs' = [envEcs EXCEPT !.deployments[u] = <<Head(@)>>]
        /\ envLast' = NoEnvCall
        /\ UNCHANGED <<envLayout, jobVars>>

\* a task of a family is launched, or one that runs stops
EcsTaskStart ==
    \E u \in PlainTasksOf(envLayout) :
        /\ Len(envEcs.statuses[u]) < MaxDescribed
        /\ envEcs' = [envEcs EXCEPT !.statuses[u] = Append(@, "RUNNING")]
        /\ envLast' = NoEnvCall
        /\ UNCHANGED <<envLayout, jobVars>>

EcsTaskStop ==
    \E u \in PlainTasksOf(envLayout) :
        \E i \in DOMAIN envEcs.statuses[u] :
            /\ envEcs.statuses[u][i] = "RUNNING"
            /\ envEcs' = [envEcs EXCEPT !.statuses[u][i] = "STOPPED"]
            /\ envLast' = NoEnvCall
            /\ UNCHANGED <<envLayout, jobVars>>

EnvNext == CheckEnvCall \/ EcsRollout \/ EcsRun \/ EcsDrain \/ EcsTaskStart \/ EcsTaskStop

EnvSpec == EnvInit /\ [][EnvNext]_vars

\* ------------------------------------------------------------------------
\* The update phase of the driver (Ecs.UpdateEnv)
\* ------------------------------------------------------------------------
\* the platform calls of the update phase; a failed call returns an error
\* that names the call
Op_DescribeServices == "DescribeServices"
Op_DescribeTaskDefinition == "DescribeTaskDefinition"
Op_RegisterTaskDefinition == "RegisterTaskDefinition"
Op_UpdateService == "UpdateService"
Op_ListTaskDefinitions == "ListTaskDefinitions"
Op_ListTasks == "ListTasks"
Op_StopTask == "StopTask"

\* line 325: *descSvcOutput.Services[0].TaskDefinition with descSvcOutput nil
Error_NilDereference == "panic: nil pointer dereference"

\* e.ecrUri, and an image reference repo + ":" + commitHash
EcrUri == "ecr/"

NoImage == <<>>

Image(repo, commitHash) == <<repo, ":", commitHash>>

\* one platform call as the client sees it: the unit it is made for, the
\* image or identifier passed, and whether it succeeded
EcsCall(op, u, image, id, ok) == [op |-> op, unit |-> u, image |-> image, id |-> id, ok |-> ok]

\* the call that fails in a walk: the nth call of op made for unit
NoFail == [unit |-> <<>>, op |-> "none", nth |-> 0]

Fails(fail, u, op, nth) == fail.unit = u /\ fail.op = op /\ fail.nth = nth

\* The walk of the update phase carries the layout (Task.id is written
\* through the *manager.Task pointers), the platform, the calls issued so
\* far and the error that ended it
Walk(layout, e) == [layout |-> layout, e |-> e, calls |-> <<>>, err |-> NoError]

Issued(w, call) == [w EXCEPT !.calls = Append(@, call)]

\* lines 206-209, 437-440, 459-462, 472-475: the inner repository wins when
\* it is not empty
RepoOr_OuterWins(outer, inner) == IF outer /= "" THEN outer ELSE inner

RepoOr(outer, inner) == IF inner /= "" THEN inner ELSE outer

\* describeEcsService (228-243): nil output and an error when the call fails
\* or reports failures
describeEcsService(w, u, fail) ==
    LET ok == ~Fails(fail, u, Op_DescribeServices, 1) IN
        [w |-> Issued(w, EcsCall(Op_DescribeServices, u, NoImage, NoId, ok)),
         nil |-> ~ok,
         taskDefinition |-> IF ok THEN w.e.definition[u] ELSE NoId,
         err |-> IF ok THEN NoError ELSE Op_DescribeServices]

\* updateEcsTaskDefinition (278-315): describe the definition, register a
\* new revision of it with the image; the platform numbers the revision
updateEcsTaskDefinition(w, u, taskDefArn, image, fail) ==
    LET okDescribe == ~Fails(fail, u, Op_DescribeTaskDefinition, 1)
        okRegister == ~Fails(fail, u, Op_RegisterTaskDefinition, 1)
        arn == w.e.revision[u] + 1
        Registered(w2) ==
            IF ~okRegister
            THEN [w |-> w2, arn |-> NoId, err |-> Op_RegisterTaskDefinition]
            ELSE [w |-> [w2 EXCEPT !.e.revision[u] = arn], arn |-> arn, err |-> NoError]
        Described(w1) ==
            IF ~okDescribe
            THEN [w |-> w1, arn |-> NoId, err |-> Op_DescribeTaskDefinition]
            ELSE Registered(Issued(w1, EcsCall(Op_RegisterTaskDefinition, u, <<EcrUri>> \o image,
                                               IF okRegister THEN arn ELSE NoId, okRegister)))
    IN  Described(Issued(w, EcsCall(Op_DescribeTaskDefinition, u, NoImage, taskDefArn, okDescribe)))

\* stopEcsTasks (372-394): list the running tasks of the family and stop
\* them one by one
\* (the platform state keeps the number of running tasks of a family; the
\* listed tasks are numbered from 1)
RECURSIVE stopEcsTasksFrom(_, _, _, _, _)
stopEcsTasksFrom(i, w, u, taskArns, fail) ==
    IF i > Len(taskArns)
    THEN [w |-> w, err |-> NoError]
    ELSE LET ok == ~Fails(fail, u, Op_StopTask, i)
             Stopped(w1) ==
                IF ~ok
                THEN [w |-> w1, err |-> Op_StopTask]
                ELSE stopEcsTasksFrom(i + 1, [w1 EXCEPT !.e.running[u] = Len(taskArns) - i],
                                      u, taskArns, fail)
         IN  Stopped(Issued(w, EcsCall(Op_StopTask, u, NoImage, taskArns[i], ok)))

stopEcsTasks(w, u, fail) ==
    LET ok == ~Fails(fail, u, Op_ListTasks, 1)
        Listed(w1) ==
            IF ~ok
            THEN [w |-> w1, err |-> Op_ListTasks]
            ELSE stopEcsTasksFrom(1, w1, u, [i \in 1..w.e.running[u] |-> i], fail)
    IN  Listed(Issued(w, EcsCall(Op_ListTasks, u, NoImage, NoId, ok)))

\* mutant of updateEcsService: the running tasks are stopped before the
\* service is pointed at the new definition
updateEcsService_StopsFirst(w, u, image, transientTask, fail, emptyDefOk) ==
    LET OkUpdate(newTaskDefArn) ==
            /\ ~Fails(fail, u, Op_UpdateService, 1)
            /\ (newTaskDefArn /= NoId \/ emptyDefOk)
        Updated_(w1, newTaskDefArn) ==
            IF ~OkUpdate(newTaskDefArn)
            THEN [w |-> w1, id |-> NoId, err |-> Op_UpdateService]
            ELSE [w |-> [w1 EXCEPT !.e.definition[u] =
                                IF newTaskDefArn /= NoId THEN newTaskDefArn ELSE @],
                  id |-> newTaskDefArn, err |-> NoError]
        Stopped(st, newTaskDefArn) ==
            IF st.err /= NoError
            THEN [w |-> st.w, id |-> NoId, err |-> st.err]
            ELSE Updated_(Issued(st.w, EcsCall(Op_UpdateService, u, NoImage, newTaskDefArn,
                                               OkUpdate(newTaskDefArn))),
                          newTaskDefArn)
        Registered(td) ==
            Stopped(IF ~transientTask THEN stopEcsTasks(td.w, u, fail) ELSE [w |-> td.w, err |-> NoError],
                    td.arn)
        Described(descSvc) ==
            IF descSvc.nil
            THEN [w |-> descSvc.w, id |-> NoId, err |-> Error_NilDereference]
            ELSE Registered(updateEcsTaskDefinition(descSvc.w, u, descSvc.taskDefinition, image, fail))
    IN  Described(describeEcsService(w, u, fail))

\* updateEcsService (317-347).  The error of describeEcsService is dropped
\* (line 322) and its nil output is dereferenced at line 325; the error of
\* updateEcsTaskDefinition is dropped too (line 325, overwritten at 336) and
\* UpdateService is called with the empty identifier it returned.
\* emptyDefOk: the platform accepts an UpdateService call that names no
\* task definition and leaves the definition of the service as it is.
updateEcsService(w, u, image, transientTask, fail, emptyDefOk) ==
    LET OkUpdate(newTaskDefArn) ==
            /\ ~Fails(fail, u, Op_UpdateService, 1)
            /\ (newTaskDefArn /= NoId \/ emptyDefOk)
        Stopped(st, newTaskDefArn) ==
            IF st.err /= NoError
            THEN [w |-> st.w, id |-> NoId, err |-> st.err]
            ELSE [w |-> st.w, id |-> newTaskDefArn, err |-> NoError]
        Pointed(w2, newTaskDefArn) ==
            IF ~transientTask
            THEN Stopped(stopEcsTasks(w2, u, fail), newTaskDefArn)
            ELSE [w |-> w2, id |-> newTaskDefArn, err |-> NoError]
        Updated_(w1, newTaskDefArn) ==
            IF ~OkUpdate(newTaskDefArn)
            THEN [w |-> w1, id |-> NoId, err |-> Op_UpdateService]
            ELSE Pointed([w1 EXCEPT !.e.definition[u] =
                                IF newTaskDefArn /= NoId THEN newTaskDefArn ELSE @],
                         newTaskDefArn)
        \* newTaskDefArn is td.arn whatever td.err is
        Registered(td) ==
            Updated_(Issued(td.w, EcsCall(Op_UpdateService, u, NoImage, td.arn, OkUpdate(td.arn))),
                     td.arn)
        Described(descSvc) ==
            IF descSvc.nil
            THEN [w |-> descSvc.w, id |-> NoId, err |-> Error_NilDereference]
            ELSE Registered(updateEcsTaskDefinition(descSvc.w, u, descSvc.taskDefinition, image, fail))
    IN  Described(describeEcsService(w, u, fail))

\* mutant of updateEcsTask: the running tasks of a transient task are
\* stopped as well
updateEcsTask_StopsTransient(w, u, image, transientTask, fail) ==
    LET ok == ~Fails(fail, u, Op_ListTaskDefinitions, 1)
        Registered(td) == [w |-> td.w, id |-> td.arn, err |-> td.err]
        Stopped(st) ==
            IF st.err /= NoError
            THEN [w |-> st.w, id |-> NoId, err |-> st.err]
            ELSE Registered(updateEcsTaskDefinition(st.w, u, w.e.revision[u], image, fail))
        Listed(w1) ==
            IF ~ok
            THEN [w |-> w1, id |-> NoId, err |-> Op_ListTaskDefinitions]
            ELSE Stopped(stopEcsTasks(w1, u, fail))
    IN  Listed(Issued(w, EcsCall(Op_ListTaskDefinitions, u, NoImage, NoId, ok)))

\* updateEcsTask (349-370): the latest definition of the family is listed,
\* the running tasks are stopped unless the task is transient, and a new
\* revision is registered
updateEcsTask(w, u, image, transientTask, fail) ==
    LET ok == ~Fails(fail, u, Op_ListTaskDefinitions, 1)
        Registered(td) == [w |-> td.w, id |-> td.arn, err |-> td.err]
        Stopped(st) ==
            IF st.err /= NoError
            THEN [w |-> st.w, id |-> NoId, err |-> st.err]
            ELSE Registered(updateEcsTaskDefinition(st.w, u, w.e.revision[u], image, fail))
        Listed(w1) ==
            IF ~ok
            THEN [w |-> w1, id |-> NoId, err |-> Op_ListTaskDefinitions]
            ELSE Stopped(IF ~transientTask
                         THEN stopEcsTasks(w1, u, fail)
                         ELSE [w |-> w1, err |-> NoError])
    IN  Listed(Issued(w, EcsCall(Op_ListTaskDefinitions, u, NoImage, NoId, ok)))

\* task.Id = id, written through the pointer held by the layout
SetId(layout, u, id) ==
    IF u[2] = DeployType_Service
    THEN [layout EXCEPT !.clusters[u[1]].serviceTasks.tasks[u[3]].id = id]
    ELSE [layout EXCEPT !.clusters[u[1]].tasks.tasks[u[3]].id = id]

\* mutant of updateEnvServiceTask: the identifier of the unit is cleared
\* when its update fails
updateEnvServiceTask_ClearsOnError(w, task, u, taskSetRepo, commitHash, fail, emptyDefOk) ==
    LET taskRepo == RepoOr(taskSetRepo, task.repo)
        Returned(r) ==
            IF r.err /= NoError
            THEN [r.w EXCEPT !.err = r.err, !.layout = SetId(@, u, NoId)]
            ELSE [r.w EXCEPT !.layout = SetId(@, u, r.id)]
    IN  Returned(updateEcsService(w, u, Image(taskRepo, commitHash), task.temp, fail, emptyDefOk))

\* updateEnvServiceTask (458-469)
updateEnvServiceTask(w, task, u, taskSetRepo, commitHash, fail, emptyDefOk) ==
    LET taskRepo == RepoOr(taskSetRepo, task.repo)
        Returned(r) ==
            IF r.err /= NoError
            THEN [r.w EXCEPT !.err = r.err]
            ELSE [r.w EXCEPT !.layout = SetId(@, u, r.id)]
    IN  Returned(updateEcsService(w, u, Image(taskRepo, commitHash), task.temp, fail, emptyDefOk))

\* updateEnvTask (471-482)
updateEnvTask(w, task, u, taskSetRepo, commitHash, fail) ==
    LET taskRepo == RepoOr(taskSetRepo, task.repo)
        Returned(r) ==
            IF r.err /= NoError
            THEN [r.w EXCEPT !.err = r.err]
            ELSE [r.w EXCEPT !.layout = SetId(@, u, r.id)]
    IN  Returned(updateEcsTask(w, u, Image(taskRepo, commitHash), task.temp, fail))

\* updateEnvTaskSet (434-456): order is the order in which the range
\* statement visits the names of the task set
RECURSIVE updateEnvTaskSetFrom(_, _, _, _, _, _, _, _, _, _)
updateEnvTaskSetFrom(i, w, taskSet, deployType, cluster, clusterRepo, commitHash, order, fail, emptyDefOk) ==
    IF i > Len(order)
    THEN w
    ELSE LET taskSetName == order[i]
             task == taskSet.tasks[taskSetName]
             u == <<cluster, deployType, taskSetName>>
             taskSetRepo == RepoOr(clusterRepo, taskSet.repo)
             Returned(w1) ==
                IF w1.err /= NoError
                THEN w1
                ELSE updateEnvTaskSetFrom(i + 1, w1, taskSet, deployType, cluster, clusterRepo,
                                          commitHash, order, fail, emptyDefOk)
         IN  IF deployType = DeployType_Service
             THEN Returned(updateEnvServiceTask(w, task, u, taskSetRepo, commitHash, fail, emptyDefOk))
             ELSE IF deployType = DeployType_Task
             THEN Returned(updateEnvTask(w, task, u, taskSetRepo, commitHash, fail))
             ELSE [w EXCEPT !.err = Error_UpdateType]

updateEnvTaskSet(w, taskSet, deployType, cluster, clusterRepo, commitHash, order, fail, emptyDefOk) ==
    IF taskSet.nil
    THEN w
    ELSE updateEnvTaskSetFrom(1, w, taskSet, deployType, cluster, clusterRepo, commitHash,
                              order, fail, emptyDefOk)

\* updateEnvCluster (425-432): the services, then the tasks
updateEnvCluster(w, cluster, clusterName, clusterRepo, commitHash, orders, fail, emptyDefOk) ==
    LET Returned(w1) ==
            IF w1.err /= NoError
            THEN w1
            ELSE updateEnvTaskSet(w1, cluster.tasks, DeployType_Task, clusterName, clusterRepo,
                                  commitHash, orders.names[<<clusterName, DeployType_Task>>],
                                  fail, emptyDefOk)
    IN  Returned(updateEnvTaskSet(w, cluster.serviceTasks, DeployType_Service, clusterName,
                                  clusterRepo, commitHash,
                                  orders.names[<<clusterName, DeployType_Service>>],
                                  fail, emptyDefOk))

\* UpdateEnv (204-215)
RECURSIVE UpdateEnvFrom(_, _, _, _, _, _)
UpdateEnvFrom(i, w, commitHash, orders, fail, emptyDefOk) ==
    IF i > Len(orders.clusters)
    THEN w
    ELSE LET clusterName == orders.clusters[i]
             cluster == w.layout.clusters[clusterName]
             clusterRepo == RepoOr(w.layout.repo, cluster.repo)
             Returned(w1) ==
                IF w1.err /= NoError
                THEN w1
                ELSE UpdateEnvFrom(i + 1, w1, commitHash, orders, fail, emptyDefOk)
         IN  Returned(updateEnvCluster(w, cluster, clusterName, clusterRepo, commitHash,
                                       orders, fail, emptyDefOk))

UpdateEnv(layout, commitHash, orders, e, fail, emptyDefOk) ==
    UpdateEnvFrom(1, Walk(layout, e), commitHash, orders, fail, emptyDefOk)

\* ------------------------------------------------------------------------
\* UpdSpec: the update phase of the driver on one layout, and the platform
\* ------------------------------------------------------------------------
\* highest definition revision the platform registers for one family
MaxUpdRev == 3
\* number of instances of one unit that run at a time
MaxInstances == 1

CommitHash == Sha

\* The layout of PopulateEnvLayout for "cas" cut to one service and its
\* transient task, a layout of two clusters with one transient task each,
\* a layout of one transient service, and layouts of one permanent
\* unit, a service or a task, whose repository is overridden at the levels
\* named in repos
UpdShape_Cas ==
    [repo |-> "ceramic-dev-cas",
     clusters |-> [c \in {"cas"} |->
        Cluster(Services({"api"}),
                TaskSet([n \in {"anchor"} |-> Task("ceramic-dev-cas-runner", TRUE, NoId)]))]]

UpdShape_TwoClusters ==
    [repo |-> "ceramic-dev",
     clusters |-> [c \in {"private", "public"} |->
        Cluster(NilTaskSet, Tasks({"runner"}, {"runner"}))]]

UpdShape_Transient ==
    [repo |-> "ceramic-dev",
     clusters |-> [c \in {"cas"} |->
        Cluster(TaskSet([n \in {"worker"} |-> Task("", TRUE, NoId)]), NilTaskSet)]]

UpdShape_Repos(repos, deployType) ==
    LET taskSet == [nil |-> FALSE, repo |-> repos.taskSet,
                    tasks |-> [n \in {"job"} |-> Task(repos.task, FALSE, NoId)]]
    IN  [repo |-> repos.layout,
         clusters |-> [c \in {"cas"} |->
            [repo |-> repos.cluster,
             serviceTasks |-> IF deployType = DeployType_Service THEN taskSet ELSE NilTaskSet,
             tasks |-> IF deployType = DeployType_Task THEN taskSet ELSE NilTaskSet]]]

RepoOverrides ==
    [layout : {"", "layout-repo"}, cluster : {"", "cluster-repo"},
     taskSet : {"", "set-repo"}, task : {"", "task-repo"}]

UpdShapes ==
    {UpdShape_Cas, UpdShape_TwoClusters, UpdShape_Transient}
        \cup {UpdShape_Repos(repos, deployType) :
                    repos \in RepoOverrides, deployType \in {DeployType_Service, DeployType_Task}}

\* the identifiers held by the tasks of a layout
IdsOf(layout) == [u \in UnitsOf(layout) |-> TaskOf(layout, u).id]

\* the calls that the update of a unit can issue, and the calls that can
\* fail in one walk: one at most, as the walk ends at the first error
UnitOps(layout, u) ==
    (IF u[2] = DeployType_Service
     THEN {Op_DescribeServices, Op_DescribeTaskDefinition, Op_RegisterTaskDefinition, Op_UpdateService}
     ELSE {Op_ListTaskDefinitions, Op_DescribeTaskDefinition, Op_RegisterTaskDefinition})
        \cup (IF TaskOf(layout, u).temp THEN {} ELSE {Op_ListTasks, Op_StopTask})

UpdateFails(layout, e) ==
    {NoFail} \cup
    UNION {UNION {{[unit |-> u, op |-> op, nth |-> nth] :
                        nth \in IF op = Op_StopTask THEN 1..e.running[u] ELSE {1}}
                  : op \in UnitOps(layout, u)}
           : u \in UnitsOf(layout)}

\* the answer of the platform to an UpdateService call without a task
\* definition is consulted only when the definition of a service failed
EmptyDefAnswers(fail) ==
    IF fail.op \in {Op_DescribeTaskDefinition, Op_RegisterTaskDefinition}
            /\ fail.unit[2] = DeployType_Service
    THEN BOOLEAN
    ELSE {TRUE}

NoUpdCall ==
    [op |-> "none", err |-> NoError, calls |-> <<>>, before |-> <<>>, again |-> FALSE]

UpdInit ==
    /\ JobIdle
    /\ envLayout \in UpdShapes
    /\ envEcs = [revision |-> [u \in UnitsOf(envLayout) |-> 1],
                 definition |-> [u \in ServicesOf(envLayout) |-> 1],
                 running |-> [u \in UnitsOf(envLayout) |-> 0]]
    /\ envLast = NoUpdCall

\* the update phase of the driver on the layout
UpdateEnvCall ==
    /\ \A u \in UnitsOf(envLayout) : envEcs.revision[u] < MaxUpdRev
    /\ \E orders \in EnvOrders(envLayout), fail \in UpdateFails(envLayout, envEcs) :
        \E emptyDefOk \in EmptyDefAnswers(fail) :
            LET w == UpdateEnv(envLayout, CommitHash, orders, envEcs, fail, emptyDefOk) IN
                /\ envLayout' = w.layout
                /\ envEcs' = w.e
                /\ envLast' = [op |-> "update", err |-> w.err, calls |-> w.calls,
                               before |-> IdsOf(envLayout),
                               again |-> envLast.op = "update" /\ envLast.err = NoError]
                /\ UNCHANGED jobVars

\* the platform launches an instance of a unit
EcsLaunch ==
    \E u \in UnitsOf(envLayout) :
        /\ envEcs.running[u] < MaxInstances
        /\ envEcs' = [envEcs EXCEPT !.running[u] = @ + 1]
        /\ envLast' = NoUpdCall
        /\ UNCHANGED <<envLayout, jobVars>>

UpdNext == UpdateEnvCall \/ EcsLaunch

UpdSpec == UpdInit /\ [][UpdNext]_vars

\* ------------------------------------------------------------------------
\* Properties of the job state machine (checked under Spec)
\* ------------------------------------------------------------------------
\* an AdvanceJob call was made, and last describes it
Called == last.in.stage /= Absent

Notified == SelectSeq(last.events, IsNotify)

Saved == SelectSeq(last.events, IsSave)

Hashed == SelectSeq(last.events, IsHash)

Count(seq, x) == Cardinality({i \in DOMAIN seq : seq[i] = x})

OverTime == last.elapsed > DefaultFailureTime

\* C1: over the AdvanceJob calls made on one job, at most one notification
\* is emitted for each of the stages started, failed and completed, and a
\* call that polls a started job that has not converged emits none.
C1_OneNotificationPerStage ==
    /\ \A stage \in {JobStage_Started, JobStage_Failed, JobStage_Completed} :
          Count(notifs, stage) <= 1
    /\ (Called /\ last.check = "pending") => Notified = <<>>

\* C2: AdvanceJob on a completed or failed job, whatever the time elapsed,
\* returns the unexpected-state error, leaves stage and params unchanged,
\* emits no notification and makes no database call.
C2_TerminalAbsorbing ==
    (Called /\ last.in.stage \in {JobStage_Completed, JobStage_Failed}) =>
        /\ last.err = Error_Unexpected
        /\ last.out = last.in
        /\ last.events = <<>>

\* C4: when the update phase fails on a queued job, or the check phase
\* returns an error on a started job within the timeout, the call returns
\* the failed stage with the error text under the error parameter, emits
\* exactly one notification, of the failed state, and hands that state to
\* the database.
C4_HardErrorFails ==
    \A text \in {Error_Update, Error_Check} :
        (/\ Called
         /\ \/ text = Error_Update /\ last.in.stage = JobStage_Queued /\ last.update = "err"
            \/ text = Error_Check /\ last.in.stage = JobStage_Started /\ ~OverTime
                                  /\ last.check = "err")
        => /\ last.out.stage = JobStage_Failed
           /\ last.out.params.error = text
           /\ Len(Notified) = 1
           /\ Notified[1].state = last.out
           /\ Len(Saved) = 1
           /\ Saved[1].state = last.out

C4_Witness ==
    /\ Called
    /\ last.in.stage = JobStage_Started
    /\ last.check = "err"
    /\ updates = <<"ok">>
    /\ notifs = <<JobStage_Started, JobStage_Failed>>

\* C5: AdvanceJob on a started job whose elapsed time exceeds the maximum
\* job duration returns the failed stage with the timeout error and does
\* not consult the check phase, converged or not.
C5_TimeoutFails ==
    (Called /\ last.in.stage = JobStage_Started /\ OverTime) =>
        /\ last.out.stage = JobStage_Failed
        /\ last.out.params.error = Error_Timeout
        /\ last.check = "none"

C5_Witness ==
    /\ Called
    /\ last.in.stage = JobStage_Started
    /\ OverTime
    /\ last.converged
    /\ last.out.stage = JobStage_Failed

\* C6: AdvanceJob on a started job within the timeout whose check phase
\* reports not converged, without error, returns the state it was given
\* and no error, and makes no notification, database or hash call.
C6_PendingIsUnchanged ==
    (Called /\ last.in.stage = JobStage_Started /\ ~OverTime /\ last.check = "pending") =>
        /\ last.out = last.in
        /\ last.err = NoError
        /\ last.events = <<>>

C6_Witness ==
    /\ Called
    /\ last.in.stage = JobStage_Started
    /\ last.check = "pending"
    /\ last.out.stage = JobStage_Started
    /\ last.in.params.layout["api"] /= NoId

\* C7 as stated: every call that changes the stage hands the new state to
\* the database before returning, so that after any call that returns
\* without error the stored stage equals the returned stage.
C7_StoredEqualsReturned ==
    /\ (Called /\ last.out.stage /= last.in.stage) =>
            (Saved /= <<>> /\ Saved[1].state = last.out)
    /\ (Called /\ last.err = NoError) => db.job.stage = last.out.stage

\* C7 amended: every call that changes the stage hands the new state to the
\* database as its last step, and when such a call returns without error
\* the stored state is the returned state.
C7_ChangeIsStored ==
    (Called /\ last.out.stage /= last.in.stage) =>
        /\ last.events /= <<>>
        /\ IsSave(last.events[Len(last.events)])
        /\ last.events[Len(last.events)].state = last.out
        /\ last.err = NoError => db.job = last.out

C7_Witness ==
    /\ Called
    /\ last.in.stage = JobStage_Started
    /\ last.out.stage = JobStage_Completed
    /\ last.err = NoError
    /\ db.job.stage = JobStage_Completed

\* C8: AdvanceJob on a queued job whose update phase succeeds returns the
\* started stage whether the build-hash update succeeds or fails; a failed
\* build-hash or deploy-hash update never changes the resulting stage and
\* never sets the error parameter.
C8_HashFailureIsSoft ==
    /\ (Called /\ last.in.stage = JobStage_Queued /\ last.update = "ok") =>
            /\ last.out.stage = JobStage_Started
            /\ last.out.params.error = last.in.params.error
    /\ (Called /\ last.in.stage = JobStage_Started /\ ~OverTime /\ last.check = "converged") =>
            /\ last.out.stage = JobStage_Completed
            /\ last.out.params.error = last.in.params.error

C8_Witness ==
    /\ Called
    /\ last.in.stage = JobStage_Queued
    /\ last.update = "ok"
    /\ Len(Hashed) = 1
    /\ Hashed[1].op = "buildHashFailed"
    /\ db.buildHash = Absent
    /\ last.out.stage = JobStage_Started

\* C9: the stage becomes completed only in a call made on a started job
\* within the timeout whose check phase reported converged without error;
\* no state of the job is completed before an update phase succeeded, and a
\* call on a queued job never returns completed.
C9_CompletedOnlyAfterCheck ==
    /\ (Called /\ last.out.stage = JobStage_Completed /\ last.in.stage /= JobStage_Completed) =>
            /\ last.in.stage = JobStage_Started
            /\ ~OverTime
            /\ last.check = "converged"
    /\ (JobStage_Completed \in {jobState.stage, d.stage, db.job.stage}) =>
            \E i \in DOMAIN updates : updates[i] = "ok"

C9_Witness ==
    /\ Called
    /\ last.in.stage = JobStage_Started
    /\ last.out.stage = JobStage_Completed
    /\ jobState.stage = JobStage_Completed

\* C10: after a call that moved the job from queued to started, the next
\* call on the same instance observes the started stage and does not run
\* the update phase again; the update phase runs at most once per job.
C10_UpdateRunsOnce ==
    /\ (Called /\ last.before = [from |-> JobStage_Queued, to |-> JobStage_Started]) =>
            (last.in.stage = JobStage_Started /\ last.update = "none")
    /\ Len(updates) <= 1

\* ------------------------------------------------------------------------
\* Properties of the check phase of the driver (checked under EnvSpec)
\* ------------------------------------------------------------------------
\* C3: CheckEnv reports converged only if every service of every cluster has
\* a deployment of the revision stored in its Task.id with a running
\* instance and every permanent plain task is running, whatever the order
\* the units are visited in; transient tasks count as converged.
C3_ConvergedOnlyIfAll ==
    (envLast.op = "check" /\ envLast.deployed) => envLast.converged = UnitsOf(envLayout)

\* ------------------------------------------------------------------------
\* Properties of the update phase of the driver (checked under UpdSpec)
\* ------------------------------------------------------------------------
\* an UpdateEnv call was made, and envLast describes it
Updated == envLast.op = "update"

\* C11: when one platform call of an update fails, UpdateEnv returns the
\* error of that call and issues no call for any other unit after it.
C11_FailureAborts ==
    Updated =>
        \A i \in DOMAIN envLast.calls :
            ~envLast.calls[i].ok =>
                /\ envLast.err = envLast.calls[i].op
                /\ \A j \in DOMAIN envLast.calls :
                        j > i => envLast.calls[j].unit = envLast.calls[i].unit

\* the units that a successful update must have stamped: the services and
\* the permanent tasks
StampedUnits(layout) ==
    {u \in UnitsOf(layout) : u[2] = DeployType_Service \/ ~TaskOf(layout, u).temp}

\* the call registered a revision for unit u and the platform returned id
RegisteredFor(u, id) ==
    \E i \in DOMAIN envLast.calls :
        /\ envLast.calls[i].unit = u
        /\ envLast.calls[i].op = Op_RegisterTaskDefinition
        /\ envLast.calls[i].ok
        /\ envLast.calls[i].id = id

\* C12: when UpdateEnv returns without error, every service and every
\* permanent task holds a non-empty identifier, the one of the revision that
\* this call registered for it.
C12_SuccessStampsAll ==
    (Updated /\ envLast.err = NoError) =>
        \A u \in StampedUnits(envLayout) :
            /\ TaskOf(envLayout, u).id /= NoId
            /\ RegisteredFor(u, TaskOf(envLayout, u).id)

\* C13: UpdateEnv is idempotent under retry: a second successful call made
\* right after a successful one leaves every Task.id as the first call left
\* it, and no more than one running instance of any service or permanent
\* task.
C13_UpdateIdempotent ==
    (Updated /\ envLast.again /\ envLast.err = NoError) =>
        /\ IdsOf(envLayout) = envLast.before
        /\ \A u \in StampedUnits(envLayout) : envEcs.running[u] <= 1

\* ------------------------------------------------------------------------
\* Further properties of the job state machine (checked under Spec)
\* ------------------------------------------------------------------------
\* C14: the timeout bounds the whole rollout: an AdvanceJob call made on a
\* job that is started (constructed as started, or moved to started by the
\* call before on this instance) after more than DefaultFailureTime has
\* elapsed since its timestamp moves the job to failed, so that a job that
\* keeps being advanced ends completed or failed.
C14_TimeoutEndsStartedJob ==
    (Called /\ OverTime
            /\ (last.in.stage = JobStage_Started \/ last.before.to = JobStage_Started)) =>
        last.out.stage = JobStage_Failed

\* ------------------------------------------------------------------------
\* Further properties of the update phase (checked under UpdSpec)
\* ------------------------------------------------------------------------
\* C15: the update phase issues no ListTasks or StopTask call for a unit
\* whose Temp flag is set, be it a service or a plain task.
C15_TransientNeverStopped ==
    Updated =>
        \A i \in DOMAIN envLast.calls :
            envLast.calls[i].op \in {Op_ListTasks, Op_StopTask} =>
                ~TaskOf(envLayout, envLast.calls[i].unit).temp

\* a transient service with a running instance was updated and the instance
\* still runs
C15_Witness ==
    /\ Updated
    /\ envLast.err = NoError
    /\ \E u \in ServicesOf(envLayout) :
        /\ TaskOf(envLayout, u).temp
        /\ RegisteredFor(u, TaskOf(envLayout, u).id)
        /\ envEcs.running[u] >= 1

\* the repository that the claim assigns to unit u: the first that is not
\* empty of Task.repo, TaskSet.repo, Cluster.repo and Layout.repo
EffectiveRepo(layout, u) ==
    LET task == TaskOf(layout, u)
        taskSet == TaskSetOf(layout, u[1], u[2])
        cluster == layout.clusters[u[1]]
    IN  IF task.repo /= "" THEN task.repo
        ELSE IF taskSet.repo /= "" THEN taskSet.repo
        ELSE IF cluster.repo /= "" THEN cluster.repo
        ELSE layout.repo

\* C16: the image that the update phase registers for a unit is built from
\* Task.repo if not empty, else TaskSet.repo, else Cluster.repo, else
\* Layout.repo, and its repository is not empty when Layout.repo is not.
C16_RepoResolution ==
    Updated =>
        \A i \in DOMAIN envLast.calls :
            envLast.calls[i].op = Op_RegisterTaskDefinition =>
                LET repo == EffectiveRepo(envLayout, envLast.calls[i].unit) IN
                    /\ envLast.calls[i].image = <<EcrUri, repo, ":", CommitHash>>
                    /\ envLayout.repo /= "" => repo /= ""

\* a revision was registered for a unit without Task.repo whose task set
\* and cluster both override the repository of the layout
C16_Witness ==
    /\ Updated
    /\ \E i \in DOMAIN envLast.calls :
        LET u == envLast.calls[i].unit IN
            /\ envLast.calls[i].op = Op_RegisterTaskDefinition
            /\ envLast.calls[i].ok
            /\ TaskOf(envLayout, u).repo = ""
            /\ TaskSetOf(envLayout, u[1], u[2]).repo = "set-repo"
            /\ envLayout.clusters[u[1]].repo = "cluster-repo"
            /\ envLayout.repo = "layout-repo"
            /\ envLast.calls[i].image[2] = "set-repo"

\* ------------------------------------------------------------------------
\* Further properties of the check phase (checked under EnvSpec)
\* ------------------------------------------------------------------------
\* C17: CheckEnv on a layout without services and without permanent tasks
\* (no clusters, absent or empty task sets, transient tasks only) reports
\* deployed without error and without a describe call.
C17_NothingToCheckIsDeployed ==
    (envLast.op = "check" /\ DescribedUnits(envLayout) = {}) =>
        /\ envLast.deployed
        /\ envLast.err = NoError
        /\ envLast.described = <<>>

\* the check of a layout whose only unit is a transient task
C17_Witness ==
    /\ envLast.op = "check"
    /\ DescribedUnits(envLayout) = {}
    /\ \E u \in PlainTasksOf(envLayout) : TaskOf(envLayout, u).temp
    /\ envLast.deployed

\* ------------------------------------------------------------------------
\* Properties of the construction of a job (checked under Spec)
\* ------------------------------------------------------------------------
\* the parameters lack the component or the sha, or name no known component
BadParams(p) == p.component \notin Components \/ p.sha = Absent

\* C18: DeployJob on a state whose parameters lack the component or the
\* sha, or name an unknown component, returns an error and no job, leaves
\* stage and parameters (the layout parameter included) as given, and makes
\* no update, check, notification or database call.
C18_BadParamsConstructNothing ==
    [][(DeployJob /\ BadParams(params)) =>
            /\ cons'.err \in {Error_MissingComponent, Error_MissingSha, Error_Component}
            /\ d' = NoJob
            /\ \/ <<jobState', params'>> = <<jobState, params>>
               \/ StateOf(jobState'.stage, jobState'.ts, params') = db.job
            /\ UNCHANGED <<db, notifs, ecs, updates, calls>>]_vars

\* the construction from parameters that name a component and lack the sha
\* has failed
C18_Witness ==
    /\ cons.err = Error_MissingSha
    /\ d = NoJob
    /\ params.component = DeployComponent_Cas
    /\ params.sha = Absent

\* ------------------------------------------------------------------------
\* Properties of a failed update (checked under UpdSpec)
\* ------------------------------------------------------------------------
\* the unit at which the last UpdateEnv call ended
LastUnit == envLast.calls[Len(envLast.calls)].unit

\* the units that the last UpdateEnv call finished updating before LastUnit
UpdatedEarlier == {c.unit : c \in {envLast.calls[i] : i \in DOMAIN envLast.calls}} \ {LastUnit}

\* the identifier that the update of unit u returned: the one of the
\* revision registered for it, or the empty one
WrittenFor(u) ==
    IF \E id \in 1..(MaxUpdRev + 1) : RegisteredFor(u, id)
    THEN CHOOSE id \in 1..(MaxUpdRev + 1) : RegisteredFor(u, id)
    ELSE NoId

\* C19: when UpdateEnv fails at a unit, the units updated before it keep
\* the Task.id written for them, and the failing unit and the units not
\* visited keep the Task.id they had before the call.
C19_PartialProgressKept ==
    (Updated /\ envLast.err /= NoError) =>
        \A u \in UnitsOf(envLayout) :
            IF u \in UpdatedEarlier
            THEN TaskOf(envLayout, u).id = WrittenFor(u)
            ELSE TaskOf(envLayout, u).id = envLast.before[u]

\* a call that stamped one unit anew and failed at the next, which keeps the
\* identifier of an earlier call
C19_Witness ==
    /\ Updated
    /\ envLast.err /= NoError
    /\ \E u \in UpdatedEarlier :
        /\ TaskOf(envLayout, u).id /= NoId
        /\ TaskOf(envLayout, u).id /= envLast.before[u]
    /\ envLast.before[LastUnit] /= NoId
    /\ TaskOf(envLayout, LastUnit).id = envLast.before[LastUnit]

\* ------------------------------------------------------------------------
\* Properties of the update of a service (checked under UpdSpec)
\* ------------------------------------------------------------------------
PermanentServices(layout) == {u \in ServicesOf(layout) : ~TaskOf(layout, u).temp}

\* the positions of the calls of the ops made for unit u in the last call
CallsAt(u, ops) ==
    {i \in DOMAIN envLast.calls : envLast.calls[i].unit = u /\ envLast.calls[i].op \in ops}

\* C20: in the update of a permanent service the revision is registered
\* before the service is pointed at it, the running tasks are listed and
\* stopped only after an UpdateService call that succeeded, and when the
\* update succeeds no task that ran before it is left running.
C20_RegisterPointStop ==
    Updated =>
        \A u \in PermanentServices(envLayout) :
            /\ \A i \in CallsAt(u, {Op_RegisterTaskDefinition}) :
                    \A j \in CallsAt(u, {Op_UpdateService}) : i < j
            /\ \A j \in CallsAt(u, {Op_ListTasks, Op_StopTask}) :
                    /\ \E i \in CallsAt(u, {Op_UpdateService}) : i < j /\ envLast.calls[i].ok
                    /\ \A i \in CallsAt(u, {Op_RegisterTaskDefinition, Op_UpdateService}) : i < j
            /\ envLast.err = NoError => envEcs.running[u] = 0

\* a successful update of a permanent service that registered a revision,
\* pointed the service at it and stopped a running task
C20_Witness ==
    /\ Updated
    /\ envLast.err = NoError
    /\ \E u \in PermanentServices(envLayout) :
        /\ RegisteredFor(u, envEcs.definition[u])
        /\ \E i \in CallsAt(u, {Op_UpdateService}) : envLast.calls[i].ok
        /\ \E i \in CallsAt(u, {Op_StopTask}) : envLast.calls[i].ok
        /\ envEcs.running[u] = 0

\* ------------------------------------------------------------------------
\* Further properties of the job state machine (checked under Spec)
\* ------------------------------------------------------------------------
\* C21: the timeout test never applies to a queued job: AdvanceJob on a
\* queued job runs the update phase and returns started when it succeeds
\* and failed when it fails, also when the time elapsed since the timestamp
\* exceeds the maximum job duration, and then the error recorded is not the
\* timeout error.
C21_QueuedIgnoresTimeout ==
    (Called /\ last.in.stage = JobStage_Queued) =>
        /\ last.update \in {"ok", "err"}
        /\ last.check = "none"
        /\ last.update = "ok" => last.out.stage = JobStage_Started
        /\ last.update = "err" => last.out.stage = JobStage_Failed
        /\ OverTime => last.out.params.error /= Error_Timeout

C21_Witness ==
    /\ Called
    /\ last.in.stage = JobStage_Queued
    /\ OverTime
    /\ last.update = "err"
    /\ last.out.stage = JobStage_Failed
    /\ last.out.params.error = Error_Update

\* the state the dispatcher holds
Held == StateOf(jobState.stage, jobState.ts, params)

\* the layout that a job constructed from the state js must work on
LayoutKept(js) ==
    IF HasLayout(js.params) THEN js.params.layout ELSE PopulateLayout(js.params.component).layout

\* the construction of a job from the held or the stored state keeps a
\* layout that is present and installs the populated one when none is
KeepsLayout ==
    \A js \in {Held, db.job}, registryOk \in BOOLEAN :
        LET c == DeployJobCall(js, js.params, registryOk) IN
        c.err = NoError => c.params.layout = LayoutKept(js)

\* a check phase that follows the one update phase of the job walks the
\* identifiers which that update registered and wrote
ChecksWritten ==
    (Called /\ last.check /= "none" /\ updates = <<"ok">>) =>
        /\ last.in.stage = JobStage_Started
        /\ last.in.params.layout = ecs.rev
        /\ last.check = "converged" => last.converged
        /\ last.check = "pending" => ~last.converged

\* a DeployJob step that returns a job leaves under LayoutParam what the
\* state it was given held there
ConstructionStep ==
    (DeployJob /\ cons'.err = NoError) =>
        \E js \in {Held, db.job} :
            /\ jobState' = [stage |-> js.stage, ts |-> js.ts]
            /\ params'.layout = LayoutKept(js)

\* C22: constructing a job from a state whose params hold a layout leaves
\* that layout untouched, a populated layout being installed only when none
\* is present, so that a job rebuilt from the state returned by the call
\* that moved the job from queued to started runs its check phase against
\* the identifiers written by the update phase.
C22_ResumptionKeepsLayout ==
    /\ [](KeepsLayout /\ ChecksWritten)
    /\ [][ConstructionStep]_vars

C22_Witness ==
    /\ Called
    /\ last.in.stage = JobStage_Started
    /\ last.check = "converged"
    /\ updates = <<"ok">>
    /\ \A u \in LayoutUnits : last.in.params.layout[u] = 2
    /\ last.out.stage = JobStage_Completed

\* the positions of the notification and database events of the call
NotifyAt == {i \in DOMAIN last.events : IsNotify(last.events[i])}

SaveAt == {i \in DOMAIN last.events : IsSave(last.events[i])}

\* C23: in every AdvanceJob call that emits a notification, the
\* notification comes before the database call of that call and carries the
\* state that is then handed to the database, whether that call succeeds or
\* fails; when it fails, the error is returned together with the state as
\* the call changed it.
C23_NotifyBeforeSave ==
    (Called /\ NotifyAt /= {}) =>
        /\ Cardinality(NotifyAt) = 1
        /\ Cardinality(SaveAt) = 1
        /\ \A n \in NotifyAt, s \in SaveAt :
              /\ n < s
              /\ last.events[n].state = last.events[s].state
              /\ last.events[s].state = last.out
              /\ last.events[s].op = "saveFailed" =>
                    /\ last.err = Error_Db
                    /\ last.out.stage = last.events[n].state.stage

C23_Witness ==
    /\ Called
    /\ NotifyAt /= {}
    /\ \E s \in SaveAt : last.events[s].op = "saveFailed"
    /\ last.in.stage = JobStage_Queued
    /\ last.out.stage = JobStage_Started
    /\ last.err = Error_Db
    /\ notifs = <<JobStage_Started>>
    /\ db.job.stage = JobStage_Queued

\* the texts that AdvanceJob writes under the error parameter
FailureTexts ==
    {Error_Update, Error_UpdateType, Error_Check, Error_CheckType, Error_Timeout}

\* C24: in every state returned by AdvanceJob, the failed stage implies that
\* the error parameter is set, to the text of the update error, of the check
\* error or to the timeout error, and a call that returns the started or the
\* completed stage does not set the error parameter.
C24_FailedHasError ==
    Called =>
        /\ last.out.stage = JobStage_Failed => last.out.params.error \in FailureTexts
        /\ last.out.stage \in {JobStage_Started, JobStage_Completed} =>
              last.out.params.error = last.in.params.error

C24_Witness ==
    /\ Called
    /\ last.in.stage = JobStage_Started
    /\ last.in.params.error = Absent
    /\ last.out.stage = JobStage_Failed
    /\ last.out.params.error = Error_Timeout
    /\ jobState.stage = JobStage_Failed
    /\ params.error = Error_Timeout

====
